---------------------------- MODULE Spec2Model ----------------------------
(***************************************************************************)
(* A model of mandelbrot.c: the SDL front end (main), the fork-join frame  *)
(* renderer (drawMandelbrot), the per-band worker (renderPart) with its    *)
(* unrolled escape-time kernel, and the palette generator.                 *)
(*                                                                         *)
(* Numbers.  The program computes in IEEE doubles.  The model computes in  *)
(* binary fixed point with FracBits fractional bits: a real v is the       *)
(* integer round(v * ONE).  Sums and differences are exact, products and   *)
(* quotients round to the nearest representable value, as the double       *)
(* operations do.  The palette polynomial is evaluated exactly over the    *)
(* rationals (the C program's doubles give the same 1001 entries).         *)
(*                                                                         *)
(* Sizes.  WIDTH, HEIGHT, NUM_THREADS and MAX_ITER keep the program's      *)
(* names and are scaled down so that every interleaving of the workers is  *)
(* explored.                                                               *)
(***************************************************************************)
EXTENDS Integers, Sequences, FiniteSets, TLC

\* ------------------------------------------------------------------------
\* Sizes of the model (the program: 800, 800, 1000, 16)
\* ------------------------------------------------------------------------
WIDTH == 2
HEIGHT == 3
MAX_ITER == 3
NUM_THREADS == 2

\* Fractional bits of the fixed-point numbers.
FracBits == 3
\* Frames the main loop may draw, and events it may receive, in one run.
MaxFrames == 2
MaxEvents == 2
\* Inputs of the pure-function specifications.
MaxPartHeight == 9
MaxPartThreads == 9
MaxKernelIter == 5
MaxPaletteIter == 14
MaxPanWheel == 4
MaxPanDelta == 2
MaxInputEvents == 5
MaxCornerPixel == 10
MaxHalfExtent == 3
MaxCenter == 2

\* ------------------------------------------------------------------------
\* Fixed-point arithmetic standing for the double operations
\* ------------------------------------------------------------------------
ONE == 2 ^ FracBits

\* a / b rounded to the nearest integer (b > 0), a tie to the even one, as
\* the double operations round; RoundDiv(-a, b) = -RoundDiv(a, b).
RoundDiv(a, b) ==
    LET q == a \div b
        r == a - q * b
    IN  IF 2 * r < b THEN q
        ELSE IF 2 * r > b THEN q + 1
        ELSE IF q % 2 = 0 THEN q ELSE q + 1

\* The double product a * b.
FMul(a, b) == RoundDiv(a * b, ONE)

\* The double quotient a / b, for b > 0.
FDiv(a, b) == RoundDiv(a * ONE, b)

\* A C conversion of a non-negative value num/den to an integer type:
\* the fractional part is discarded.
Truncate(num, den) == num \div den

\* The same value rounded to the nearest integer (what round() would give).
RoundNearest(num, den) == (2 * num + den) \div (2 * den)

\* ------------------------------------------------------------------------
\* generateColorPalette (lines 38-46)
\* ------------------------------------------------------------------------
\* The channel polynomials of entry i of a table of maxIter + 1 entries, as
\* exact fractions num/den with t = i / maxIter:
\*   r = 9 (1-t) t^3 255,  g = 15 (1-t)^2 t^2 255,  b = 8.5 (1-t)^3 t 255.
RedNum(i, maxIter) == 9 * (maxIter - i) * i * i * i * 255
GreenNum(i, maxIter) == 15 * (maxIter - i) * (maxIter - i) * i * i * 255
BlueNum(i, maxIter) == 17 * (maxIter - i) * (maxIter - i) * (maxIter - i) * i * 255
RedDen(maxIter) == maxIter * maxIter * maxIter * maxIter
GreenDen(maxIter) == maxIter * maxIter * maxIter * maxIter
BlueDen(maxIter) == 2 * maxIter * maxIter * maxIter * maxIter

\* (uint8_t) of a double: the conversion of line 41-43.
ToUint8Round(num, den) == RoundNearest(num, den) % 256
ToUint8(num, den) == Truncate(num, den) % 256

\* (0xFF << 24) | (r << 16) | (g << 8) | b.  The 32-bit word is kept as its
\* alpha byte and its low 24 bits.
PackARGB(r, g, b) == [alpha |-> 255, rgb |-> r * 65536 + g * 256 + b]

PaletteEntry(i, maxIter) ==
    PackARGB(ToUint8(RedNum(i, maxIter), RedDen(maxIter)),
             ToUint8(GreenNum(i, maxIter), GreenDen(maxIter)),
             ToUint8(BlueNum(i, maxIter), BlueDen(maxIter)))

\* A static array starts zeroed.
ZeroColor == [alpha |-> 0, rgb |-> 0]

\* ------------------------------------------------------------------------
\* The escape-time kernel of renderPart (lines 64-85)
\* ------------------------------------------------------------------------
\* zr2 + zi2 >= 4.0
Escaped(zr2, zi2) == zr2 + zi2 >= 4 * ONE

\* Lines 76-78: zi = zr * zi; zi += zi + imag; zr = zr2 - zi2 + real.
UpdateZrFirst(zr, zi, zr2, zi2, real, imag) ==
    LET nzr == zr2 - zi2 + real
        p == FMul(nzr, zi)
    IN  [zr |-> nzr, zi |-> p + (p + imag)]
Update(zr, zi, zr2, zi2, real, imag) ==
    LET p == FMul(zr, zi)
    IN  [zr |-> zr2 - zi2 + real, zi |-> p + (p + imag)]

\* Line 75: i < 2 && iter < MAX_ITER.
InnerCondNoCap(i, iter, maxIter) == i < 2
InnerCond(i, iter, maxIter) == i < 2 /\ iter < maxIter

\* The one element of a singleton: { e(v) : v \in {x} } computes x once
\* however often e uses it.
Only(S) == CHOOSE v \in S : TRUE

RECURSIVE OuterLoop(_, _, _, _, _, _)
RECURSIVE InnerLoop(_, _, _, _, _, _, _, _, _)
\* The while loop of line 69, entered with (zr, zi, iter); sq is
\* <<zr2, zi2>> of lines 70-71.
OuterLoop(zr, zi, iter, real, imag, maxIter) ==
    IF ~(iter < maxIter)
    THEN iter
    ELSE Only({IF Escaped(sq[1], sq[2])
               THEN iter
               ELSE InnerLoop(0, zr, zi, sq[1], sq[2], iter, real, imag,
                              maxIter) :
               sq \in {<<FMul(zr, zr), FMul(zi, zi)>>}})

\* The for loop of line 75, at its test with counter i; u is (zr, zi) after
\* lines 76-78 and sq <<zr2, zi2>> of lines 81-82.
InnerLoop(i, zr, zi, zr2, zi2, iter, real, imag, maxIter) ==
    IF ~InnerCond(i, iter, maxIter)
    THEN OuterLoop(zr, zi, iter, real, imag, maxIter)
    ELSE Only({Only({IF Escaped(sq[1], sq[2])
                     THEN OuterLoop(u.zr, u.zi, iter + 1, real, imag, maxIter)
                     ELSE InnerLoop(i + 1, u.zr, u.zi, sq[1], sq[2], iter + 1,
                                    real, imag, maxIter) :
                     sq \in {<<FMul(u.zr, u.zr), FMul(u.zi, u.zi)>>}}) :
               u \in {Update(zr, zi, zr2, zi2, real, imag)}})

\* iter at line 88, for the constant real + i imag.
Kernel(real, imag, maxIter) == OuterLoop(0, 0, 0, real, imag, maxIter)


\* ------------------------------------------------------------------------
\* The viewport transform of renderPart (lines 56 and 63)
\* ------------------------------------------------------------------------
\* (p - extent / 2.0) / (0.5 * zoom * extent) + center, the form of lines
\* 56 and 63; extent is HEIGHT or WIDTH.
ViewTransformFullScale(p, z, c, extent) ==
    RoundDiv((2 * p - extent) * ONE * ONE, 2 * z * extent) + c
ViewTransformCorner(p, z, c, extent) ==
    RoundDiv(2 * p * ONE * ONE, z * extent) + c
ViewTransform(p, z, c, extent) ==
    RoundDiv((2 * p - extent) * ONE * ONE, z * extent) + c

\* (y - HEIGHT / 2.0) / (0.5 * zoom * HEIGHT) + centerY
PixelImag(y, z, cy) == ViewTransform(y, z, cy, HEIGHT)

\* (x - WIDTH / 2.0) / (0.5 * zoom * WIDTH) + centerX
PixelReal(x, z, cx) == ViewTransform(x, z, cx, WIDTH)

\* ------------------------------------------------------------------------
\* The row bands of drawMandelbrot (lines 100, 108, 109)
\* ------------------------------------------------------------------------
SliceHeightCeil(height, nThreads) == (height + nThreads - 1) \div nThreads
SliceHeight(height, nThreads) == height \div nThreads

StartY(k, height, nThreads) == k * SliceHeight(height, nThreads)

EndYInclusive(k, height, nThreads) ==
    IF k = nThreads - 1
    THEN height
    ELSE (k + 1) * SliceHeight(height, nThreads) + 1
EndYNoRemainder(k, height, nThreads) == (k + 1) * SliceHeight(height, nThreads)
EndY(k, height, nThreads) ==
    IF k = nThreads - 1
    THEN height
    ELSE (k + 1) * SliceHeight(height, nThreads)

\* ------------------------------------------------------------------------
\* State
\* ------------------------------------------------------------------------
VARIABLES
    \* main
    pc,            \* where main is
    exitCode,      \* main's return value once it has returned, else -1
    allocResult,   \* result of posix_memalign (0 before the call)
    pixelsPtr,     \* mandelbrot.pixels: "NULL", "valid" or "freed"
    pixels,        \* what the buffer holds, by index y * WIDTH + x
    centerX, centerY, zoom,
    colorPalette,
    running, dragging, prevMouseX, prevMouseY,
    \* drawMandelbrot
    loopI,         \* the i of the loop main is in
    threadData,    \* startY and endY of each worker
    updateRects,   \* y and h of each rectangle
    texture,       \* what the streaming texture holds, by pixel index
    \* renderPart, one per thread
    wstate,        \* "none", "running", "finished" or "joined"
    wy, wx,        \* its y and x
    wphase,        \* "row": at the test of the row loop; "col": in the columns
    wimag,         \* its imag
    \* the window
    shown,         \* what was last presented, by pixel index
    \* history, for stating the properties
    frame,         \* calls of drawMandelbrot that have returned
    nEvents,       \* events handled, other than the quit
    writes,        \* per pixel index: the workers that wrote it in this call
    pixView,       \* per pixel index: the viewport values its last write read
    wview,         \* per worker: the viewport values its row read
    frameView,     \* the viewport when this call of drawMandelbrot began
    uploaded,      \* the bands uploaded in this call
    lastView, lastPixels, \* viewport and buffer at the previous return
    \* the pure-function specifications
    fin,           \* the inputs
    fstep,         \* the loop counter
    fout           \* the result so far

mainVars == <<pc, exitCode, allocResult, pixelsPtr, pixels, centerX, centerY,
              zoom, colorPalette, running, dragging, prevMouseX, prevMouseY,
              loopI, threadData, updateRects, texture, shown>>
workerVars == <<wstate, wy, wx, wphase, wimag>>
historyVars == <<frame, nEvents, writes, pixView, wview, frameView, uploaded,
                 lastView, lastPixels>>
funVars == <<fin, fstep, fout>>
vars == <<mainVars, workerVars, historyVars, funVars>>

Threads == 0 .. NUM_THREADS - 1
PixelIdx == 0 .. WIDTH * HEIGHT - 1

\* What uninitialised or never-written memory may hold.
GarbageColor == [alpha |-> 171, rgb |-> 11259375]
NoView == [cx |-> 0, cy |-> 0, zx |-> 0, zy |-> 0]

\* ------------------------------------------------------------------------
\* main: start-up (lines 128-155)
\* ------------------------------------------------------------------------
NoFun == [kind |-> "none"]

MainInit ==
    /\ pc = "sdl_init"
    /\ exitCode = -1
    /\ allocResult = 0
    /\ pixelsPtr = "NULL"
    /\ pixels = [p \in PixelIdx |-> GarbageColor]
    /\ centerX = -(ONE \div 2)
    /\ centerY = 0
    /\ zoom = ONE
    /\ colorPalette = [k \in 0 .. MAX_ITER |-> ZeroColor]
    /\ running = FALSE
    /\ dragging = FALSE
    /\ prevMouseX = 0
    /\ prevMouseY = 0
    /\ loopI = 0
    /\ threadData = [t \in Threads |-> [startY |-> 0, endY |-> 0]]
    /\ updateRects = [t \in Threads |-> [y |-> 0, h |-> 0]]
    /\ texture = [p \in PixelIdx |-> GarbageColor]
    /\ shown = [p \in PixelIdx |-> GarbageColor]
    /\ wstate = [t \in Threads |-> "none"]
    /\ wy = [t \in Threads |-> 0]
    /\ wx = [t \in Threads |-> 0]
    /\ wphase = [t \in Threads |-> "row"]
    /\ wimag = [t \in Threads |-> 0]
    /\ frame = 0
    /\ nEvents = 0
    /\ writes = [p \in PixelIdx |-> <<>>]
    /\ pixView = [p \in PixelIdx |-> NoView]
    /\ wview = [t \in Threads |-> NoView]
    /\ frameView = NoView
    /\ uploaded = {}
    /\ lastView = NoView
    /\ lastPixels = [p \in PixelIdx |-> GarbageColor]

Init ==
    /\ MainInit
    /\ fin = NoFun
    /\ fstep = 0
    /\ fout = NoFun

\* Lines 128-131: SDL_Init succeeds, or main returns 1.
SdlInit ==
    /\ pc = "sdl_init"
    /\ \E ok \in BOOLEAN :
          IF ok
          THEN pc' = "create" /\ exitCode' = exitCode
          ELSE pc' = "exit" /\ exitCode' = 1
    /\ UNCHANGED <<allocResult, pixelsPtr, pixels, centerX, centerY, zoom,
                   colorPalette, running, dragging, prevMouseX, prevMouseY,
                   loopI, threadData, updateRects, texture, shown>>
    /\ UNCHANGED <<workerVars, historyVars, funVars>>

\* Lines 133-141: window, renderer and texture are created, or main returns 1.
CreateWindow ==
    /\ pc = "create"
    /\ \E ok \in BOOLEAN :
          IF ok
          THEN pc' = "alloc" /\ exitCode' = exitCode
          ELSE pc' = "exit" /\ exitCode' = 1
    /\ UNCHANGED <<allocResult, pixelsPtr, pixels, centerX, centerY, zoom,
                   colorPalette, running, dragging, prevMouseX, prevMouseY,
                   loopI, threadData, updateRects, texture, shown>>
    /\ UNCHANGED <<workerVars, historyVars, funVars>>

\* What posix_memalign can do: return 0 and set the pointer, or return
\* ENOMEM (12) and leave the pointer as it was, NULL.
AllocOutcomes == {[result |-> 0, ptr |-> "valid"], [result |-> 12, ptr |-> "NULL"]}

\* Line 146: result != 0 || !mandelbrot.pixels
AllocFailedNegativeOnly(result, ptr) == result < 0
AllocFailed(result, ptr) == result # 0 \/ ptr = "NULL"

\* What a fresh allocation may hold.
FreshBuffers == {[p \in PixelIdx |-> c] : c \in {ZeroColor, GarbageColor}}

\* Lines 144-150.
Allocate ==
    /\ pc = "alloc"
    /\ \E o \in AllocOutcomes, buf \in FreshBuffers :
          /\ allocResult' = o.result
          /\ pixelsPtr' = o.ptr
          /\ pixels' = IF o.ptr = "valid" THEN buf ELSE pixels
          /\ IF AllocFailed(o.result, o.ptr)
             THEN pc' = "exit" /\ exitCode' = 1
             ELSE pc' = "palette" /\ exitCode' = exitCode
    /\ UNCHANGED <<centerX, centerY, zoom, colorPalette, running, dragging,
                   prevMouseX, prevMouseY, loopI, threadData, updateRects,
                   texture, shown>>
    /\ UNCHANGED <<workerVars, historyVars, funVars>>

\* The same without the call of line 152.
GeneratePaletteMissing ==
    /\ pc = "palette"
    /\ running' = TRUE
    /\ dragging' = FALSE
    /\ prevMouseX' = 0
    /\ prevMouseY' = 0
    /\ pc' = "loop"
    /\ UNCHANGED <<exitCode, allocResult, pixelsPtr, pixels, centerX, centerY,
                   zoom, colorPalette, loopI, threadData, updateRects, texture,
                   shown>>
    /\ UNCHANGED <<workerVars, historyVars, funVars>>

\* Lines 152-155: generateColorPalette(), then the locals of the loop.
GeneratePalette ==
    /\ pc = "palette"
    /\ colorPalette' = [k \in 0 .. MAX_ITER |-> PaletteEntry(k, MAX_ITER)]
    /\ running' = TRUE
    /\ dragging' = FALSE
    /\ prevMouseX' = 0
    /\ prevMouseY' = 0
    /\ pc' = "loop"
    /\ UNCHANGED <<exitCode, allocResult, pixelsPtr, pixels, centerX, centerY,
                   zoom, loopI, threadData, updateRects, texture, shown>>
    /\ UNCHANGED <<workerVars, historyVars, funVars>>

\* ------------------------------------------------------------------------
\* main: the event loop (lines 158-190)
\* ------------------------------------------------------------------------
View == [cx |-> centerX, cy |-> centerY, zx |-> zoom, zy |-> zoom]

\* The literals 1.1 and 1 / 1.1 of line 166.
ZoomIn == RoundDiv(11 * ONE, 10)
ZoomOut == FDiv(ONE, ZoomIn)

\* SDL reports mouse positions as floats; these are 0.0, 0.5 and 1.5.
MousePos == {<<0, 0>>, <<ONE + ONE \div 2, ONE \div 2>>}
SDL_BUTTON_LEFT == "left"
Buttons == {SDL_BUTTON_LEFT, "right", "middle"}
WheelY == {-1, 0, 1}

\* The conversion of a float position to the int prevMouseX / prevMouseY.
ToInt(v) == IF v >= 0 THEN v \div ONE ELSE -((-v) \div ONE)

\* Events are taken from the queue only inside the while of line 159.
PollAnywhere == pc \in {"poll", "spawn", "join", "upload"}
PollPhase == pc = "poll"

\* while (running), line 158.
LoopTest ==
    /\ pc = "loop"
    /\ pc' = IF running THEN "poll" ELSE "cleanup"
    /\ UNCHANGED <<exitCode, allocResult, pixelsPtr, pixels, centerX, centerY,
                   zoom, colorPalette, running, dragging, prevMouseX,
                   prevMouseY, loopI, threadData, updateRects, texture, shown>>
    /\ UNCHANGED <<workerVars, historyVars, funVars>>

\* An event other than the quit is delivered while the run has events left.
MoreEvents == nEvents < MaxEvents

eventFrame == <<pc, exitCode, allocResult, pixelsPtr, pixels, colorPalette,
                loopI, threadData, updateRects, texture, shown>>
eventHistory == <<frame, writes, pixView, wview, frameView, uploaded,
                  lastView, lastPixels>>

\* case SDL_EVENT_QUIT (lines 161-163).
EventQuit ==
    /\ PollPhase
    /\ running
    /\ running' = FALSE
    /\ UNCHANGED <<centerX, centerY, zoom, dragging, prevMouseX, prevMouseY,
                   nEvents>>
    /\ UNCHANGED <<eventFrame, eventHistory, workerVars, funVars>>

\* (event.wheel.y > 0) ? 1.1 : 1 / 1.1, line 166.
WheelFactorAlwaysIn(y) == ZoomIn
WheelFactorByAmount(y) == y * ZoomIn
WheelFactor(y) == IF y > 0 THEN ZoomIn ELSE ZoomOut

\* The body of case SDL_EVENT_MOUSE_WHEEL (lines 164-167) for wheel.y = y.
WheelEffect(y) ==
    /\ zoom' = FMul(zoom, WheelFactor(y))
    /\ UNCHANGED <<centerX, centerY, running, dragging, prevMouseX, prevMouseY>>

\* The body of case SDL_EVENT_MOUSE_BUTTON_DOWN (lines 168-175) for button b
\* pressed at the position m.
ButtonDownEffectAnyButton(b, m) ==
    /\ dragging' = TRUE
    /\ prevMouseX' = ToInt(m[1])
    /\ prevMouseY' = ToInt(m[2])
    /\ UNCHANGED <<centerX, centerY, zoom, running>>
ButtonDownEffect(b, m) ==
    /\ IF b = SDL_BUTTON_LEFT
       THEN /\ dragging' = TRUE
            /\ prevMouseX' = ToInt(m[1])
            /\ prevMouseY' = ToInt(m[2])
       ELSE UNCHANGED <<dragging, prevMouseX, prevMouseY>>
    /\ UNCHANGED <<centerX, centerY, zoom, running>>

\* The body of case SDL_EVENT_MOUSE_BUTTON_UP (lines 176-179).
ButtonUpEffect ==
    /\ dragging' = FALSE
    /\ UNCHANGED <<centerX, centerY, zoom, running, prevMouseX, prevMouseY>>

\* center -= d / (zoom * extent), the update of lines 183-184 for the
\* delta d; extent is WIDTH or HEIGHT.
PanByAssign(center, d, z, extent) == 0 - RoundDiv(d * ONE, z * extent)
PanBy(center, d, z, extent) == center - RoundDiv(d * ONE, z * extent)

\* centerX -= (event.motion.x - prevMouseX) / (zoom * WIDTH), lines 183-184;
\* m is the float position, prev the int.
Pan(center, m, prev, z, extent) == PanBy(center, m - prev * ONE, z, extent)

\* The body of case SDL_EVENT_MOUSE_MOTION (lines 180-188) for the pointer
\* at the position m.
MotionEffect(m) ==
    /\ IF dragging
       THEN /\ centerX' = Pan(centerX, m[1], prevMouseX, zoom, WIDTH)
            /\ centerY' = Pan(centerY, m[2], prevMouseY, zoom, HEIGHT)
            /\ prevMouseX' = ToInt(m[1])
            /\ prevMouseY' = ToInt(m[2])
       ELSE UNCHANGED <<centerX, centerY, prevMouseX, prevMouseY>>
    /\ UNCHANGED <<zoom, running, dragging>>

\* case SDL_EVENT_MOUSE_WHEEL (lines 164-167).
EventWheel ==
    /\ PollPhase
    /\ MoreEvents
    /\ \E y \in WheelY : WheelEffect(y)
    /\ nEvents' = nEvents + 1
    /\ UNCHANGED <<eventFrame, eventHistory, workerVars, funVars>>

\* case SDL_EVENT_MOUSE_BUTTON_DOWN (lines 168-175).
EventButtonDown ==
    /\ PollPhase
    /\ MoreEvents
    /\ \E b \in Buttons, m \in MousePos : ButtonDownEffect(b, m)
    /\ nEvents' = nEvents + 1
    /\ UNCHANGED <<eventFrame, eventHistory, workerVars, funVars>>

\* case SDL_EVENT_MOUSE_BUTTON_UP (lines 176-179).
EventButtonUp ==
    /\ PollPhase
    /\ MoreEvents
    /\ ButtonUpEffect
    /\ nEvents' = nEvents + 1
    /\ UNCHANGED <<eventFrame, eventHistory, workerVars, funVars>>

\* case SDL_EVENT_MOUSE_MOTION (lines 180-188).
EventMotion ==
    /\ PollPhase
    /\ MoreEvents
    /\ \E m \in MousePos : MotionEffect(m)
    /\ nEvents' = nEvents + 1
    /\ UNCHANGED <<eventFrame, eventHistory, workerVars, funVars>>

\* SDL_PollEvent returns false; main calls drawMandelbrot (line 193).  The
\* last frame of a run is the one drawn after the quit.
PollEmpty ==
    /\ pc = "poll"
    /\ frame < MaxFrames - 1 \/ ~running
    /\ pc' = "spawn"
    /\ loopI' = 0
    /\ writes' = [p \in PixelIdx |-> <<>>]
    /\ uploaded' = {}
    /\ frameView' = View
    /\ UNCHANGED <<exitCode, allocResult, pixelsPtr, pixels, centerX, centerY,
                   zoom, colorPalette, running, dragging, prevMouseX,
                   prevMouseY, threadData, updateRects, texture, shown>>
    /\ UNCHANGED <<frame, nEvents, pixView, wview, lastView, lastPixels>>
    /\ UNCHANGED <<workerVars, funVars>>

\* ------------------------------------------------------------------------
\* drawMandelbrot (lines 95-125)
\* ------------------------------------------------------------------------
\* Lines 106-117, one turn of the loop: the descriptor, pthread_create, the
\* rectangle.  pthread_create is taken to succeed: the code does not look
\* at its result.
SpawnWorker ==
    /\ pc = "spawn"
    /\ loopI < NUM_THREADS
    /\ LET s == StartY(loopI, HEIGHT, NUM_THREADS)
           e == EndY(loopI, HEIGHT, NUM_THREADS)
       IN  /\ threadData' = [threadData EXCEPT ![loopI] = [startY |-> s, endY |-> e]]
           /\ updateRects' = [updateRects EXCEPT ![loopI] = [y |-> s, h |-> e - s]]
           /\ wstate' = [wstate EXCEPT ![loopI] = "running"]
           /\ wy' = [wy EXCEPT ![loopI] = s]
           /\ wx' = [wx EXCEPT ![loopI] = 0]
           /\ wphase' = [wphase EXCEPT ![loopI] = "row"]
    /\ loopI' = loopI + 1
    /\ UNCHANGED <<pc, exitCode, allocResult, pixelsPtr, pixels, centerX,
                   centerY, zoom, colorPalette, running, dragging, prevMouseX,
                   prevMouseY, texture, shown, wimag>>
    /\ UNCHANGED <<historyVars, funVars>>

\* The loop of line 106 ends; the loop of line 119 begins.
SpawnDone ==
    /\ pc = "spawn"
    /\ ~(loopI < NUM_THREADS)
    /\ pc' = "join"
    /\ loopI' = 0
    /\ UNCHANGED <<exitCode, allocResult, pixelsPtr, pixels, centerX, centerY,
                   zoom, colorPalette, running, dragging, prevMouseX,
                   prevMouseY, threadData, updateRects, texture, shown>>
    /\ UNCHANGED <<workerVars, historyVars, funVars>>

\* Line 119: i < NUM_THREADS.
JoinLoopCondOffByOne(k) == k < NUM_THREADS - 1
JoinLoopCond(k) == k < NUM_THREADS

\* pthread_join(threads[k]) returns once thread k has terminated.
JoinReturnsNever(k) == FALSE
JoinReturnsAtOnce(k) == TRUE
JoinReturns(k) == wstate[k] = "finished"

\* Line 120.
JoinWorker ==
    /\ pc = "join"
    /\ JoinLoopCond(loopI)
    /\ JoinReturns(loopI)
    /\ pc' = "upload"
    /\ UNCHANGED <<exitCode, allocResult, pixelsPtr, pixels, centerX, centerY,
                   zoom, colorPalette, running, dragging, prevMouseX,
                   prevMouseY, loopI, threadData, updateRects, texture, shown>>
    /\ UNCHANGED <<workerVars, historyVars, funVars>>

\* The rows SDL_UpdateTexture copies for rectangle k: h rows from row y.
RectRowsWhole(k) == 0 .. HEIGHT - 1
RectRows(k) == updateRects[k].y .. updateRects[k].y + updateRects[k].h - 1

\* Line 123: SDL_UpdateTexture(texture, &updateRects[i],
\*                             m->pixels + updateRects[i].y * WIDTH, pitch).
UploadBand ==
    /\ pc = "upload"
    /\ texture' = [p \in PixelIdx |->
                      IF (p \div WIDTH) \in RectRows(loopI)
                      THEN pixels[p]
                      ELSE texture[p]]
    /\ uploaded' = uploaded \cup {loopI}
    /\ loopI' = loopI + 1
    /\ pc' = "join"
    /\ UNCHANGED <<exitCode, allocResult, pixelsPtr, pixels, centerX, centerY,
                   zoom, colorPalette, running, dragging, prevMouseX,
                   prevMouseY, threadData, updateRects, shown>>
    /\ UNCHANGED <<frame, nEvents, writes, pixView, wview, frameView,
                   lastView, lastPixels>>
    /\ UNCHANGED <<workerVars, funVars>>

\* The loop of line 119 ends and drawMandelbrot returns.
DrawReturn ==
    /\ pc = "join"
    /\ ~JoinLoopCond(loopI)
    /\ pc' = "present"
    /\ frame' = frame + 1
    /\ UNCHANGED <<exitCode, allocResult, pixelsPtr, pixels, centerX, centerY,
                   zoom, colorPalette, running, dragging, prevMouseX,
                   prevMouseY, loopI, threadData, updateRects, texture, shown>>
    /\ UNCHANGED <<nEvents, writes, pixView, wview, frameView, uploaded,
                   lastView, lastPixels>>
    /\ UNCHANGED <<workerVars, funVars>>

\* Lines 194-196: SDL_RenderClear, SDL_RenderTexture, SDL_RenderPresent.
Present ==
    /\ pc = "present"
    /\ shown' = texture
    /\ lastView' = View
    /\ lastPixels' = pixels
    /\ pc' = "loop"
    /\ UNCHANGED <<exitCode, allocResult, pixelsPtr, pixels, centerX, centerY,
                   zoom, colorPalette, running, dragging, prevMouseX,
                   prevMouseY, loopI, threadData, updateRects, texture>>
    /\ UNCHANGED <<frame, nEvents, writes, pixView, wview, frameView, uploaded>>
    /\ UNCHANGED <<workerVars, funVars>>

\* Lines 199-204.
Cleanup ==
    /\ pc = "cleanup"
    /\ pixelsPtr' = "freed"
    /\ exitCode' = 0
    /\ pc' = "exit"
    /\ UNCHANGED <<allocResult, pixels, centerX, centerY, zoom, colorPalette,
                   running, dragging, prevMouseX, prevMouseY, loopI,
                   threadData, updateRects, texture, shown>>
    /\ UNCHANGED <<workerVars, historyVars, funVars>>

\* ------------------------------------------------------------------------
\* renderPart (lines 49-92), thread t
\* ------------------------------------------------------------------------
\* Line 55: y < data->endY.
RowCond(t) == wy[t] < threadData[t].endY

\* Lines 55-59: a row begins; imag is computed from the shared viewport.
WorkerRow(t) ==
    /\ wstate[t] = "running"
    /\ wphase[t] = "row"
    /\ RowCond(t)
    /\ wimag' = [wimag EXCEPT ![t] = PixelImag(wy[t], zoom, centerY)]
    /\ wview' = [wview EXCEPT ![t] = [cx |-> 0, cy |-> centerY, zx |-> 0, zy |-> zoom]]
    /\ wx' = [wx EXCEPT ![t] = 0]
    /\ wphase' = [wphase EXCEPT ![t] = "col"]
    /\ UNCHANGED <<wstate, wy>>
    /\ UNCHANGED <<frame, nEvents, writes, pixView, frameView, uploaded,
                   lastView, lastPixels>>
    /\ UNCHANGED <<mainVars, funVars>>

\* &pixels[y * WIDTH] + x, lines 59 and 88.
PixelIndex(y, x) == y * WIDTH + x

\* Lines 62-88: one pixel.  A store through a null or freed pointer is
\* undefined; the model has no step for it.
WorkerPixel(t) ==
    /\ wstate[t] = "running"
    /\ wphase[t] = "col"
    /\ pixelsPtr = "valid"
    /\ LET real == PixelReal(wx[t], zoom, centerX)
           iter == Kernel(real, wimag[t], MAX_ITER)
           idx == PixelIndex(wy[t], wx[t])
       IN  /\ pixels' = [pixels EXCEPT ![idx] = colorPalette[iter]]
           /\ writes' = [writes EXCEPT ![idx] = Append(@, t)]
           /\ pixView' = [pixView EXCEPT ![idx] =
                             [cx |-> centerX, cy |-> wview[t].cy,
                              zx |-> zoom, zy |-> wview[t].zy]]
    /\ IF wx[t] + 1 < WIDTH
       THEN /\ wx' = [wx EXCEPT ![t] = wx[t] + 1]
            /\ UNCHANGED <<wy, wphase>>
       ELSE /\ wy' = [wy EXCEPT ![t] = wy[t] + 1]
            /\ wphase' = [wphase EXCEPT ![t] = "row"]
            /\ wx' = wx
    /\ UNCHANGED <<wstate, wimag>>
    /\ UNCHANGED <<pc, exitCode, allocResult, pixelsPtr, centerX, centerY,
                   zoom, colorPalette, running, dragging, prevMouseX,
                   prevMouseY, loopI, threadData, updateRects, texture, shown>>
    /\ UNCHANGED <<frame, nEvents, wview, frameView, uploaded, lastView,
                   lastPixels>>
    /\ UNCHANGED funVars

\* Line 91: the row loop has ended; the thread terminates.
WorkerReturn(t) ==
    /\ wstate[t] = "running"
    /\ wphase[t] = "row"
    /\ ~RowCond(t)
    /\ wstate' = [wstate EXCEPT ![t] = "finished"]
    /\ UNCHANGED <<wy, wx, wphase, wimag>>
    /\ UNCHANGED <<mainVars, historyVars, funVars>>

\* ------------------------------------------------------------------------
\* The program
\* ------------------------------------------------------------------------
MainStep ==
    \/ SdlInit
    \/ CreateWindow
    \/ Allocate
    \/ GeneratePalette
    \/ LoopTest
    \/ EventQuit
    \/ EventWheel
    \/ EventButtonDown
    \/ EventButtonUp
    \/ EventMotion
    \/ PollEmpty
    \/ SpawnWorker
    \/ SpawnDone
    \/ JoinWorker
    \/ UploadBand
    \/ DrawReturn
    \/ Present
    \/ Cleanup

WorkerStep == \E t \in Threads : WorkerRow(t) \/ WorkerPixel(t) \/ WorkerReturn(t)

Next == MainStep \/ WorkerStep

Spec == Init /\ [][Next]_vars

\* ------------------------------------------------------------------------
\* The pure functions on their own: the program's variables stay as they
\* start, the inputs are drawn from bounded sets
\* ------------------------------------------------------------------------
mainAll == <<mainVars, workerVars, historyVars>>

\* The band computation of lines 100-109 for any height and worker count:
\* one turn of the loop of line 106 per step, fout the bands so far.
PartInit ==
    /\ MainInit
    /\ fin \in {[kind |-> "part", height |-> h, nThreads |-> n] :
                   h \in 1 .. MaxPartHeight, n \in 1 .. MaxPartThreads}
    /\ fstep = 0
    /\ fout = <<>>

PartStep ==
    /\ fin.kind = "part"
    /\ fstep < fin.nThreads
    /\ fout' = Append(fout, [startY |-> StartY(fstep, fin.height, fin.nThreads),
                             endY |-> EndY(fstep, fin.height, fin.nThreads)])
    /\ fstep' = fstep + 1
    /\ UNCHANGED <<fin, mainAll>>

PartSpec == PartInit /\ [][PartStep]_vars

\* The kernel for any constant and any iteration cap.
KernelReals == {(k * ONE) \div 4 : k \in -10 .. 4}
KernelImags == {(k * ONE) \div 4 : k \in -6 .. 6}

KernelInit ==
    /\ MainInit
    /\ fin \in {[kind |-> "kernel", real |-> re, imag |-> im, maxIter |-> m] :
                   re \in KernelReals, im \in KernelImags, m \in 0 .. MaxKernelIter}
    /\ fstep = 0
    /\ fout = NoFun

KernelRun ==
    /\ fin.kind = "kernel"
    /\ fstep = 0
    /\ fout' = [kind |-> "iter", iter |-> Kernel(fin.real, fin.imag, fin.maxIter)]
    /\ fstep' = 1
    /\ UNCHANGED <<fin, mainAll>>

KernelSpec == KernelInit /\ [][KernelRun]_vars

\* generateColorPalette for any table size: one turn of the loop of line 39
\* per step, fout the table.
PaletteInit ==
    /\ MainInit
    /\ fin \in {[kind |-> "palette", maxIter |-> m] : m \in 1 .. MaxPaletteIter}
    /\ fstep = 0
    /\ fout = [k \in 0 .. fin.maxIter |-> ZeroColor]

PaletteStep ==
    /\ fin.kind = "palette"
    /\ fstep <= fin.maxIter
    /\ fout' = [fout EXCEPT ![fstep] = PaletteEntry(fstep, fin.maxIter)]
    /\ fstep' = fstep + 1
    /\ UNCHANGED <<fin, mainAll>>

PaletteSpec == PaletteInit /\ [][PaletteStep]_vars

\* ------------------------------------------------------------------------
\* Properties
\* ------------------------------------------------------------------------
BandRows(b) == b.startY .. b.endY - 1

PartDone == fin.kind = "part" /\ fstep = fin.nThreads

\* C1: for every height > 0 and worker count > 0, once the loop of line 106
\* has computed all the bands, there is one band per worker, band k is
\* [k * sliceHeight, (k + 1) * sliceHeight) except the last, which ends at
\* height; the bands are pairwise disjoint and their union is exactly
\* [0, height), also when the count does not divide the height or exceeds it.
C1_PartitionComplete ==
    PartDone =>
        /\ Len(fout) = fin.nThreads
        /\ \A k \in 1 .. Len(fout) :
              /\ fout[k].startY = (k - 1) * (fin.height \div fin.nThreads)
              /\ fout[k].endY = IF k = fin.nThreads
                                THEN fin.height
                                ELSE k * (fin.height \div fin.nThreads)
        /\ \A j, k \in 1 .. Len(fout) :
              j # k => BandRows(fout[j]) \cap BandRows(fout[k]) = {}
        /\ UNION {BandRows(fout[k]) : k \in 1 .. Len(fout)} = 0 .. fin.height - 1

\* C1 witness: all bands computed for more workers than rows, the height
\* above one (the leading bands are empty, the last holds every row).
C1_Witness ==
    /\ PartDone
    /\ fin.nThreads > fin.height
    /\ fin.height > 1
    /\ BandRows(fout[fin.nThreads]) = 0 .. fin.height - 1

KernelDone == fin.kind = "kernel" /\ fstep = 1

\* C6: the iteration count the unrolled loop leaves in iter satisfies
\* 0 <= iter <= maxIter for every constant and every cap, so that
\* colorPalette[iter] is one of the maxIter + 1 entries of the table.
C6_KernelBounded ==
    KernelDone => fout.iter \in 0 .. fin.maxIter

\* C6 witness: a point that never escapes under an odd cap, where the
\* second unrolled update must be cut short: iter ends at the cap.
C6_Witness ==
    /\ KernelDone
    /\ fin.maxIter % 2 = 1
    /\ fin.maxIter >= 3
    /\ fout.iter = fin.maxIter

\* The loop of section 4.2 of the specification: z = 0; iter = 0;
\* while iter < MaxIter: if |z|^2 >= 4 break; z = z^2 + c; iter += 1.
RECURSIVE RefLoop(_, _, _, _, _, _)
RefLoop(zr, zi, iter, real, imag, maxIter) ==
    IF iter < maxIter /\ ~(FMul(zr, zr) + FMul(zi, zi) >= 4 * ONE)
    THEN RefLoop(FMul(zr, zr) - FMul(zi, zi) + real,
                 2 * FMul(zr, zi) + imag,
                 iter + 1, real, imag, maxIter)
    ELSE iter

\* C7: for every constant and every cap (odd or even, zero included) the
\* unrolled kernel returns the value of the reference loop: the number of
\* updates zr' = zr^2 - zi^2 + real, zi' = 2 zr zi + imag, each from the
\* same pre-update (zr, zi), made before the squared magnitude first
\* reaches 4, or the cap.
C7_KernelMatchesReference ==
    KernelDone => fout.iter = RefLoop(0, 0, 0, fin.real, fin.imag, fin.maxIter)

\* C7 witness: an orbit with both parts non-zero that escapes after an odd
\* number of at least three updates, below the cap (the break inside the
\* unrolled pair, in a later pass of the outer loop).
C7_Witness ==
    /\ KernelDone
    /\ fin.imag # 0
    /\ fin.real # 0
    /\ fout.iter >= 3
    /\ fout.iter % 2 = 1
    /\ fout.iter < fin.maxIter

\* The channels of a packed colour.
RedOf(c) == c.rgb \div 65536
GreenOf(c) == (c.rgb \div 256) % 256
BlueOf(c) == c.rgb % 256

\* v is num/den with its fractional part discarded (num, den >= 0).
IsFloorOf(v, num, den) == v * den <= num /\ num < (v + 1) * den

\* v is num/den rounded to the nearest integer (either neighbour at a tie).
IsNearestTo(v, num, den) == 2 * v * den - den <= 2 * num /\ 2 * num <= 2 * v * den + den

PaletteFilled(k) == fin.kind = "palette" /\ k \in 0 .. fin.maxIter /\ k < fstep

\* C10 (as claimed): every entry generateColorPalette has stored is
\* 0xFF<<24 | r<<16 | g<<8 | b with each channel the polynomial value
\* rounded to the nearest integer.
C10_PaletteRounded ==
    \A k \in 0 .. MaxPaletteIter :
        PaletteFilled(k) =>
            /\ fout[k].alpha = 255
            /\ IsNearestTo(RedOf(fout[k]), RedNum(k, fin.maxIter), RedDen(fin.maxIter))
            /\ IsNearestTo(GreenOf(fout[k]), GreenNum(k, fin.maxIter), GreenDen(fin.maxIter))
            /\ IsNearestTo(BlueOf(fout[k]), BlueNum(k, fin.maxIter), BlueDen(fin.maxIter))

\* C10 (amended): every entry generateColorPalette has stored is
\* 0xFF<<24 | r<<16 | g<<8 | b with each channel the polynomial value with
\* its fractional part discarded (the uint8_t cast truncates), each below
\* 256; entries not yet stored are still zero.
C10_PaletteTruncated ==
    \A k \in 0 .. MaxPaletteIter :
        /\ PaletteFilled(k) =>
              /\ fout[k].alpha = 255
              /\ fout[k].rgb < 16777216
              /\ IsFloorOf(RedOf(fout[k]), RedNum(k, fin.maxIter), RedDen(fin.maxIter))
              /\ IsFloorOf(GreenOf(fout[k]), GreenNum(k, fin.maxIter), GreenDen(fin.maxIter))
              /\ IsFloorOf(BlueOf(fout[k]), BlueNum(k, fin.maxIter), BlueDen(fin.maxIter))
        /\ (fin.kind = "palette" /\ k \in fstep .. fin.maxIter) => fout[k] = ZeroColor

\* C10 witness: a whole table has been generated, and an entry of it has a
\* red value whose fractional part is above one half (rounding and
\* truncation differ there).
C10_Witness ==
    /\ fin.kind = "palette"
    /\ fstep = fin.maxIter + 1
    /\ \E k \in 1 .. fin.maxIter - 1 :
          /\ ~IsNearestTo(RedOf(fout[k]), RedNum(k, fin.maxIter), RedDen(fin.maxIter))
          /\ IsFloorOf(RedOf(fout[k]), RedNum(k, fin.maxIter), RedDen(fin.maxIter))

\* ------------------------------------------------------------------------
\* Properties of the running program
\* ------------------------------------------------------------------------
\* main is inside drawMandelbrot.
InDraw == pc \in {"spawn", "join", "upload"}

\* drawMandelbrot has just returned.
Returned == pc = "present"

SomeWorkerRunning == \E t \in Threads : wstate[t] = "running"

RowOf(p) == p \div WIDTH

\* C2: in one call of drawMandelbrot, under every interleaving, a worker
\* writes only indices y * WIDTH + x with startY <= y < endY of its own
\* band, no index is written by two workers or twice, and when the call
\* returns every index of [0, WIDTH * HEIGHT) has been written exactly once.
C2_DisjointWrites ==
    /\ \A p \in PixelIdx :
          /\ Len(writes[p]) <= 1
          /\ \A k \in 1 .. Len(writes[p]) :
                /\ threadData[writes[p][k]].startY <= RowOf(p)
                /\ RowOf(p) < threadData[writes[p][k]].endY
    /\ Returned => \A p \in PixelIdx : Len(writes[p]) = 1

\* C2 witness: the second call has returned with every index written once,
\* the first and the last index by different workers.
C2_Witness ==
    /\ Returned
    /\ frame = 2
    /\ \A p \in PixelIdx : Len(writes[p]) = 1
    /\ writes[0] # writes[WIDTH * HEIGHT - 1]

\* C3: drawMandelbrot returns only after every worker it spawned has
\* finished: outside the call no worker runs, and while the next call is
\* spawning, the workers it has not yet spawned are not running either (no
\* worker of the previous frame is left).
C3_Barrier ==
    /\ ~InDraw => ~SomeWorkerRunning
    /\ pc = "spawn" => \A t \in Threads : t >= loopI => wstate[t] # "running"
    /\ Returned => \A t \in Threads : wstate[t] = "finished"

\* C3 witness: the second frame is being spawned: its first worker runs,
\* the next slot still holds the finished worker of the first frame.
C3_Witness ==
    /\ pc = "spawn"
    /\ frame = 1
    /\ loopI = 1
    /\ wstate[0] = "running"
    /\ wstate[1] = "finished"

\* C4 (as claimed): no part of the buffer is handed to SDL_UpdateTexture,
\* or rendered and presented, while any worker of the frame is in flight.
C4_HandoffAfterBarrier ==
    pc \in {"upload", "present"} => ~SomeWorkerRunning

\* C4 (amended): the rows of band i are handed to SDL_UpdateTexture only
\* once worker i has been joined, and they are exactly the rows of that
\* band (workers of later bands may still be in flight); the texture is
\* rendered and presented only after every worker has been joined and every
\* band uploaded.
C4_HandoffAfterJoin ==
    /\ pc = "upload" =>
          /\ wstate[loopI] = "finished"
          /\ \A t \in Threads : t < loopI => wstate[t] = "finished"
          /\ RectRows(loopI) = threadData[loopI].startY .. threadData[loopI].endY - 1
    /\ Returned =>
          /\ ~SomeWorkerRunning
          /\ uploaded = Threads

\* C4 witness: band 0 is about to be uploaded while the last worker is
\* still running.
C4_Witness ==
    /\ pc = "upload"
    /\ loopI = 0
    /\ wstate[0] = "finished"
    /\ wstate[NUM_THREADS - 1] = "running"

\* C5: centerX, centerY and zoom are not written between the spawn of a
\* frame's first worker and the join of its last: while main is inside
\* drawMandelbrot or a worker runs they are what they were when the call
\* began, and every pixel written in the call was computed from that one
\* triple (the row's imag and the pixel's real read the same values).
C5_OneViewportPerFrame ==
    /\ (InDraw \/ SomeWorkerRunning \/ Returned) => View = frameView
    /\ \A p \in PixelIdx : writes[p] # <<>> => pixView[p] = frameView
    /\ Returned => \A p \in PixelIdx : pixView[p] = View

\* C5 witness: the second frame has returned, drawn wholly from a viewport
\* whose centre was dragged away from the first frame's, and the buffer
\* differs from the first frame's.
C5_Witness ==
    /\ Returned
    /\ frame = 2
    /\ lastView.cx # View.cx
    /\ pixels # lastPixels
    /\ \A p \in PixelIdx : pixView[p] = View

\* The frame of a viewport: each pixel's palette entry.
FrameOf(v) ==
    [p \in PixelIdx |->
        colorPalette[Kernel(PixelReal(p % WIDTH, v.zx, v.cx),
                            PixelImag(p \div WIDTH, v.zy, v.cy), MAX_ITER)]]

\* C8: the buffer drawMandelbrot leaves depends on the viewport alone: it
\* is the frame of the viewport whatever the interleaving of the workers
\* and whatever the buffer held before, and a call with the viewport of the
\* previous call leaves the buffer the previous call left.
C8_Deterministic ==
    Returned =>
        /\ pixels = FrameOf(View)
        /\ (frame >= 2 /\ lastView = View) => pixels = lastPixels

\* C8 witness: the second call has returned with the viewport of the first
\* and the same buffer, which is neither of the fills the allocation may
\* have held.
C8_Witness ==
    /\ Returned
    /\ frame = 2
    /\ lastView = View
    /\ pixels = lastPixels
    /\ pixels \notin FreshBuffers

\* posix_memalign has failed or left a null buffer.
AllocHasFailed ==
    \/ allocResult # 0
    \/ pc \notin {"sdl_init", "create", "alloc"} /\ pixelsPtr = "NULL"

\* C9: after a failed allocation main has returned non-zero, the palette
\* was never generated, no worker was ever spawned, no frame was drawn,
\* uploaded or presented; and no worker ever runs without a valid buffer.
C9_AllocFailureFatal ==
    /\ AllocHasFailed =>
          /\ pc = "exit"
          /\ exitCode # 0
          /\ colorPalette = [k \in 0 .. MAX_ITER |-> ZeroColor]
          /\ \A t \in Threads : wstate[t] = "none"
          /\ frame = 0
          /\ uploaded = {}
          /\ shown = [p \in PixelIdx |-> GarbageColor]
    /\ SomeWorkerRunning => pixelsPtr = "valid"

\* C9 witness: posix_memalign returned ENOMEM and main has returned 1.
C9_Witness ==
    /\ allocResult = 12
    /\ pixelsPtr = "NULL"
    /\ pc = "exit"
    /\ exitCode = 1

\* The table generateColorPalette leaves.
GeneratedPalette == [k \in 0 .. MAX_ITER |-> PaletteEntry(k, MAX_ITER)]

OpaqueBlack == [alpha |-> 255, rgb |-> 0]

\* C11: generateColorPalette has not run before main reaches line 152 and
\* no worker exists until then; from line 153 on, through every event,
\* every frame (spawn, worker writes, join, upload, present) and the
\* clean-up, colorPalette is the table that one call left: nothing writes
\* it again, and entries 0 and MAX_ITER are the same opaque black in every
\* frame.
C11_PaletteImmutable ==
    /\ pc \in {"sdl_init", "create", "alloc", "palette"} =>
          /\ colorPalette = [k \in 0 .. MAX_ITER |-> ZeroColor]
          /\ \A t \in Threads : wstate[t] = "none"
          /\ frame = 0
    /\ (pc \in {"loop", "poll", "spawn", "join", "upload", "present", "cleanup"}
        \/ (pc = "exit" /\ exitCode = 0)
        \/ \E t \in Threads : wstate[t] # "none") =>
          /\ colorPalette = GeneratedPalette
          /\ colorPalette[0] = OpaqueBlack
          /\ colorPalette[MAX_ITER] = OpaqueBlack

\* C11 witness: the second frame has returned, its workers have read the
\* table (a pixel holds an entry other than black), and the table is still
\* the generated one.
C11_Witness ==
    /\ Returned
    /\ frame = 2
    /\ colorPalette = GeneratedPalette
    /\ \E p \in PixelIdx, k \in 1 .. MAX_ITER - 1 :
          pixels[p] = colorPalette[k] /\ pixels[p] # OpaqueBlack

\* ------------------------------------------------------------------------
\* The pan update of lines 183-184 as a function of its deltas
\* ------------------------------------------------------------------------
RECURSIVE ZoomAfter(_)
\* zoom after n wheel events up (n > 0) or -n wheel events down (n < 0)
\* from the 1.0 of line 144.
ZoomAfter(n) ==
    IF n = 0 THEN ONE
    ELSE IF n > 0 THEN FMul(ZoomAfter(n - 1), WheelFactor(1))
    ELSE FMul(ZoomAfter(n + 1), WheelFactor(-1))

PanZooms == {ZoomAfter(n) : n \in -MaxPanWheel .. MaxPanWheel}

\* Deltas in half pixels: event.motion.x is a float, prevMouseX an int.
PanDeltas == {d * (ONE \div 2) : d \in -MaxPanDelta .. MaxPanDelta}

\* From the centre of line 144 the update is applied with d1 and then with
\* d2, one application per step; fout is the centre so far.
PanInit ==
    /\ MainInit
    /\ fin \in {[kind |-> "pan", z |-> z, d1 |-> d1, d2 |-> d2] :
                   z \in PanZooms, d1 \in PanDeltas \X PanDeltas,
                   d2 \in PanDeltas \X PanDeltas}
    /\ fstep = 0
    /\ fout = [cx |-> centerX, cy |-> centerY]

PanStep ==
    /\ fin.kind = "pan"
    /\ fstep < 2
    /\ LET d == IF fstep = 0 THEN fin.d1 ELSE fin.d2
       IN  fout' = [cx |-> PanBy(fout.cx, d[1], fin.z, WIDTH),
                    cy |-> PanBy(fout.cy, d[2], fin.z, HEIGHT)]
    /\ fstep' = fstep + 1
    /\ UNCHANGED <<fin, mainAll>>

PanSpec == PanInit /\ [][PanStep]_vars

\* The centre one application with the summed deltas gives.
PanOnce ==
    [cx |-> PanBy(centerX, fin.d1[1] + fin.d2[1], fin.z, WIDTH),
     cy |-> PanBy(centerY, fin.d1[2] + fin.d2[2], fin.z, HEIGHT)]

Abs(v) == IF v >= 0 THEN v ELSE -v

\* C12 as claimed: after the update with (dx1, dy1) and then with
\* (dx2, dy2) the centre is the same as after one update with
\* (dx1 + dx2, dy1 + dy2).
C12_PanLinearExact == fstep = 2 => fout = PanOnce

\* C12 amended: the two centres agree up to the rounding of the quotients,
\* here one unit of the last place in each coordinate.
C12_PanLinearRounded ==
    fstep = 2 => /\ Abs(fout.cx - PanOnce.cx) <= 1
                 /\ Abs(fout.cy - PanOnce.cy) <= 1

\* C12 witness: two nonzero updates in both coordinates were applied at a
\* zoom other than 1, and the centre moved in both coordinates.
C12_Witness ==
    /\ fstep = 2
    /\ fin.z # ONE
    /\ fin.d1[1] # 0 /\ fin.d1[2] # 0 /\ fin.d2[1] # 0 /\ fin.d2[2] # 0
    /\ fout.cx # centerX /\ fout.cy # centerY

\* ------------------------------------------------------------------------
\* The event loop of lines 159-190 on a longer queue
\* ------------------------------------------------------------------------
\* drawMandelbrot and the presentation write none of centerX, centerY, zoom,
\* dragging, prevMouseX, prevMouseY, so what a sequence of events does to
\* them is what it does within one run of the while of line 159.  fstep
\* counts the events handled, fin holds the last two with the state each
\* found, fout the drag in progress.
InputState ==
    [cx |-> centerX, cy |-> centerY, zoom |-> zoom, dragging |-> dragging,
     px |-> prevMouseX, py |-> prevMouseY]

NoEvent == [kind |-> "none", y |-> 0, b |-> "none", m |-> <<0, 0>>,
            pre |-> InputState]

NoDrag == [active |-> FALSE, p0 |-> <<0, 0>>, c0 |-> <<0, 0>>, z |-> 0,
           n |-> 0, pn |-> <<0, 0>>]

InputInit ==
    /\ MainInit
    /\ fstep = 0
    /\ fin = [last |-> NoEvent, prev |-> NoEvent]
    /\ fout = NoDrag

MoreInput == fstep < MaxInputEvents

Logged(kind, y, b, m) ==
    /\ fin' = [last |-> [kind |-> kind, y |-> y, b |-> b, m |-> m,
                         pre |-> InputState],
               prev |-> fin.last]
    /\ fstep' = fstep + 1

inputFrame == <<eventFrame, eventHistory, workerVars, nEvents>>

InputWheel ==
    /\ PollPhase
    /\ MoreInput
    /\ \E y \in WheelY : WheelEffect(y) /\ Logged("wheel", y, "none", <<0, 0>>)
    /\ fout' = [fout EXCEPT !.active = FALSE]
    /\ UNCHANGED inputFrame

\* A press of the left button at p0 starts the record of a drag.
InputButtonDown ==
    /\ PollPhase
    /\ MoreInput
    /\ \E b \in Buttons, m \in MousePos :
          /\ ButtonDownEffect(b, m)
          /\ Logged("down", 0, b, m)
          /\ fout' = IF b = SDL_BUTTON_LEFT
                     THEN [active |-> TRUE, p0 |-> m,
                           c0 |-> <<centerX, centerY>>, z |-> zoom, n |-> 0,
                           pn |-> m]
                     ELSE [fout EXCEPT !.active = FALSE]
    /\ UNCHANGED inputFrame

InputButtonUp ==
    /\ PollPhase
    /\ MoreInput
    /\ ButtonUpEffect
    /\ Logged("up", 0, "none", <<0, 0>>)
    /\ fout' = [fout EXCEPT !.active = FALSE]
    /\ UNCHANGED inputFrame

\* A motion event during the recorded drag is its next position.
InputMotion ==
    /\ PollPhase
    /\ MoreInput
    /\ \E m \in MousePos :
          /\ MotionEffect(m)
          /\ Logged("motion", 0, "none", m)
          /\ fout' = IF fout.active
                     THEN [fout EXCEPT !.n = @ + 1, !.pn = m]
                     ELSE fout
    /\ UNCHANGED inputFrame

InputNext ==
    \/ SdlInit
    \/ CreateWindow
    \/ Allocate
    \/ GeneratePalette
    \/ LoopTest
    \/ InputWheel
    \/ InputButtonDown
    \/ InputButtonUp
    \/ InputMotion

InputSpec == InputInit /\ [][InputNext]_vars

\* The last two events were a wheel event up and then one down (any
\* wheel.y that is not positive zooms out), or the reverse.
InThenOut ==
    /\ fin.prev.kind = "wheel" /\ fin.prev.y > 0
    /\ fin.last.kind = "wheel" /\ ~(fin.last.y > 0)
OutThenIn ==
    /\ fin.prev.kind = "wheel" /\ ~(fin.prev.y > 0)
    /\ fin.last.kind = "wheel" /\ fin.last.y > 0

\* The state the first of the last two events found.
Before == fin.prev.pre

CenterAsBefore == centerX = Before.cx /\ centerY = Before.cy

\* z2 is z up to the rounding of the two literals and of the two products:
\* |z2 - z| <= z * |1.1 * (1 / 1.1) - 1| + (1.1 + 1) / 2 units.
WithinRounding(z2, z) ==
    2 * ONE * ONE * Abs(z2 - z) <=
        2 * z * Abs(ZoomIn * ZoomOut - ONE * ONE) + ONE * ZoomIn + ONE * ONE

\* C13 as claimed: a zoom-in followed by a zoom-out, or the reverse,
\* restores the zoom value it started from and leaves the centre unchanged.
C13_ZoomRestoredExact ==
    (InThenOut \/ OutThenIn) => zoom = Before.zoom /\ CenterAsBefore

\* C13 amended: the pair restores the zoom value up to rounding, and leaves
\* the centre exactly unchanged.
C13_ZoomRestoredRounded ==
    (InThenOut \/ OutThenIn) =>
        WithinRounding(zoom, Before.zoom) /\ CenterAsBefore

\* C13 witness: after a drag moved the centre, a zoom-in and then a zoom-out
\* that changed the zoom have been handled.
C13_Witness ==
    /\ InThenOut
    /\ centerX # -(ONE \div 2)
    /\ zoom # fin.last.pre.zoom
    /\ Before.zoom # fin.last.pre.zoom

\* ------------------------------------------------------------------------
\* The program's own sizes: the pixels next to the corner (0, 0)
\* ------------------------------------------------------------------------
\* #define WIDTH 800, HEIGHT 800, MAX_ITER 1000 (lines 8-10).
FullWidth == 800
FullHeight == 800
FullMaxIter == 1000

\* What the body of the loop of line 62 computes for the pixel (x, y) of the
\* 800 x 800 image under the viewport of line 144: first real and imag
\* (lines 56 and 63), then iter (lines 64-85).
CornerInit ==
    /\ MainInit
    /\ fin \in {[kind |-> "corner", x |-> x, y |-> y] :
                   x \in 0 .. MaxCornerPixel, y \in 0 .. MaxCornerPixel}
    /\ fstep = 0
    /\ fout = [real |-> 0, imag |-> 0, iter |-> 0]

CornerPoint ==
    /\ fin.kind = "corner"
    /\ fstep = 0
    /\ fout' = [fout EXCEPT
                  !.real = ViewTransform(fin.x, zoom, centerX, FullWidth),
                  !.imag = ViewTransform(fin.y, zoom, centerY, FullHeight)]
    /\ fstep' = 1
    /\ UNCHANGED <<fin, mainAll>>

CornerKernel ==
    /\ fin.kind = "corner"
    /\ fstep = 1
    /\ fout' = [fout EXCEPT !.iter = Kernel(fout.real, fout.imag, FullMaxIter)]
    /\ fstep' = 2
    /\ UNCHANGED <<fin, mainAll>>

CornerSpec == CornerInit /\ [][CornerPoint \/ CornerKernel]_vars

AtCorner == fin.x = 0 /\ fin.y = 0

\* "Approximately": within an eighth.
Near(v, target) == Abs(v - target) <= ONE \div 8

\* C14 as claimed: under the default viewport pixel (0, 0) of the 800 x 800
\* image maps to real = -2.5 and imag = -1.0, approximately, and the kernel
\* returns iter < 10 for it.
C14_CornerAtMinusTwoAndAHalf ==
    AtCorner =>
        /\ fstep >= 1 => /\ Near(fout.real, -((5 * ONE) \div 2))
                         /\ Near(fout.imag, -ONE)
        /\ fstep = 2 => fout.iter < 10

\* C14 amended: pixel (0, 0) maps to real = -1.5 and imag = -1.0, and the
\* kernel returns iter < 10 for it.
C14_CornerAtMinusOneAndAHalf ==
    AtCorner =>
        /\ fstep >= 1 => /\ fout.real = -((3 * ONE) \div 2)
                         /\ fout.imag = -ONE
        /\ fstep = 2 => fout.iter < 10

\* C14 witness: the kernel has run for pixel (0, 0) and the point escaped
\* after at least one update.
C14_Witness ==
    /\ AtCorner
    /\ fstep = 2
    /\ fout.iter > 0
    /\ fout.iter < FullMaxIter

\* ------------------------------------------------------------------------
\* The viewport transform of lines 56 and 63 for any viewport
\* ------------------------------------------------------------------------
\* Even image sizes, the program's among them: pixel extent / 2 is the
\* centre pixel.
EvenExtents == {2 * k : k \in 1 .. MaxHalfExtent} \cup {FullWidth, FullHeight}

\* Centres in half units around the origin.
Centers == {k * (ONE \div 2) : k \in -MaxCenter .. MaxCenter}

\* fout collects the images of the centre pixel (step 1) and of column 0,
\* row 0 and the first column and row past the image (step 2).
TransformInit ==
    /\ MainInit
    /\ fin \in {[kind |-> "transform", w |-> w, h |-> h, z |-> z, cx |-> cx,
                 cy |-> cy] :
                   w \in EvenExtents, h \in EvenExtents, z \in PanZooms,
                   cx \in Centers, cy \in Centers}
    /\ fstep = 0
    /\ fout = [mid |-> <<0, 0>>, low |-> <<0, 0>>, high |-> <<0, 0>>]

TransformCenter ==
    /\ fin.kind = "transform"
    /\ fstep = 0
    /\ fout' = [fout EXCEPT
                  !.mid = <<ViewTransform(fin.w \div 2, fin.z, fin.cx, fin.w),
                            ViewTransform(fin.h \div 2, fin.z, fin.cy, fin.h)>>]
    /\ fstep' = 1
    /\ UNCHANGED <<fin, mainAll>>

TransformEdges ==
    /\ fin.kind = "transform"
    /\ fstep = 1
    /\ fout' = [fout EXCEPT
                  !.low = <<ViewTransform(0, fin.z, fin.cx, fin.w),
                            ViewTransform(0, fin.z, fin.cy, fin.h)>>,
                  !.high = <<ViewTransform(fin.w, fin.z, fin.cx, fin.w),
                             ViewTransform(fin.h, fin.z, fin.cy, fin.h)>>]
    /\ fstep' = 2
    /\ UNCHANGED <<fin, mainAll>>

TransformSpec == TransformInit /\ [][TransformCenter \/ TransformEdges]_vars

\* C15: for every viewport the centre pixel (WIDTH / 2, HEIGHT / 2) maps
\* exactly to (centerX, centerY); column 0 maps to centerX - 1 / zoom and
\* row 0 to centerY - 1 / zoom, up to the rounding of the quotient; and at
\* zoom 1 the image spans 2 units of the plane in each direction.
C15_ViewportTransform ==
    /\ fstep >= 1 => fout.mid = <<fin.cx, fin.cy>>
    /\ fstep = 2 =>
          /\ Abs(fout.low[1] - (fin.cx - FDiv(ONE, fin.z))) <= 1
          /\ Abs(fout.low[2] - (fin.cy - FDiv(ONE, fin.z))) <= 1
          /\ fin.z = ONE => /\ fout.low = <<fin.cx - ONE, fin.cy - ONE>>
                            /\ fout.high[1] - fout.low[1] = 2 * ONE
                            /\ fout.high[2] - fout.low[2] = 2 * ONE

\* C15 witness: the transform has been applied for the program's 800 x 800
\* image at a zoom other than 1 and a centre off the origin.
C15_Witness ==
    /\ fstep = 2
    /\ fin.w = FullWidth /\ fin.h = FullHeight
    /\ fin.z # ONE
    /\ fin.cx # 0 /\ fin.cy # 0
    /\ fout.low[1] # fin.cx /\ fout.low[2] # fin.cy

\* C16: during one drag (left button down at p0, then motion events at
\* p1 .. pn, zoom unchanged) the centre after the n-th motion event is the
\* centre at the press moved by the single pan for pn - p0, however the
\* movement was split; the n + 1 quotients involved are each rounded, which
\* allows (n + 1) / 2 units of difference.
C16_DragTelescopes ==
    (fout.active /\ fout.n >= 1) =>
        /\ zoom = fout.z
        /\ 2 * Abs(centerX - PanBy(fout.c0[1], fout.pn[1] - fout.p0[1],
                                   fout.z, WIDTH)) <= fout.n + 1
        /\ 2 * Abs(centerY - PanBy(fout.c0[2], fout.pn[2] - fout.p0[2],
                                   fout.z, HEIGHT)) <= fout.n + 1

\* C17: in every reachable state, after any wheel, button and motion
\* events, zoom is strictly positive, and so are the divisors zoom * WIDTH
\* and zoom * HEIGHT of lines 183-184 and 0.5 * zoom * WIDTH and
\* 0.5 * zoom * HEIGHT of lines 56 and 63 (0.5 * zoom rounded as a value of
\* the last place is).
C17_ZoomPositive ==
    /\ zoom > 0
    /\ zoom * WIDTH > 0
    /\ zoom * HEIGHT > 0
    /\ RoundDiv(zoom, 2) * WIDTH > 0
    /\ RoundDiv(zoom, 2) * HEIGHT > 0

\* C17 witness: zoom has been multiplied by 1 / 1.1 until the rounded
\* product no longer decreases.
C17_Witness ==
    /\ fin.last.kind = "wheel"
    /\ ~(fin.last.y > 0)
    /\ zoom < ONE
    /\ zoom = fin.last.pre.zoom

\* ------------------------------------------------------------------------
\* Scheduling
\* ------------------------------------------------------------------------
\* The steps of drawMandelbrot (lines 95-125).
DrawStep == SpawnWorker \/ SpawnDone \/ JoinWorker \/ UploadBand \/ DrawReturn

\* The steps of the worker t (lines 49-92).
WorkerSteps(t) == WorkerRow(t) \/ WorkerPixel(t) \/ WorkerReturn(t)

\* The program without pointer events: they are handled only between two
\* calls of drawMandelbrot and change only the viewport the next call
\* reads, so the frames here are those of the viewport of line 144.
FrameNext ==
    \/ SdlInit
    \/ CreateWindow
    \/ Allocate
    \/ GeneratePalette
    \/ LoopTest
    \/ EventQuit
    \/ PollEmpty
    \/ DrawStep
    \/ Present
    \/ Cleanup
    \/ WorkerStep

\* The main thread runs on unless pthread_join blocks it, and the scheduler
\* gives every started thread its turn.
FairSpec ==
    /\ Init
    /\ [][FrameNext]_vars
    /\ WF_vars(DrawStep)
    /\ \A t \in Threads : WF_vars(WorkerSteps(t))

WorkerDone(t) == wstate[t] = "finished" /\ wy[t] = threadData[t].endY

\* C18: a running worker can always take its next step whatever the other
\* workers do; no step leaves drawMandelbrot other than its return; every
\* started worker finishes, past the last row of its band; and every call
\* of drawMandelbrot returns.
C18_FrameCompletes ==
    /\ [](\A t \in Threads : wstate[t] = "running" => ENABLED WorkerSteps(t))
    /\ [][InDraw => (InDraw' \/ Returned')]_vars
    /\ \A t \in Threads : (wstate[t] = "running") ~> WorkerDone(t)
    /\ InDraw ~> Returned

\* C18 witness: the last frame of a run has returned with every worker
\* finished and every band uploaded.
C18_Witness ==
    /\ Returned
    /\ frame = MaxFrames
    /\ \A t \in Threads : WorkerDone(t)
    /\ uploaded = Threads

\* The rows a running worker t has not finished writing.
RowsToWrite(t) ==
    IF wstate[t] = "running" THEN wy[t] .. threadData[t].endY - 1 ELSE {}

\* C19: when SDL_UpdateTexture is about to read rectangle i, worker i has
\* been joined, the rectangle is exactly the rows [startY_i, endY_i) that
\* worker was given, every pixel of it has been written (once, by worker
\* i), and no running worker has a row of it left to write, although
\* workers of later bands may be running; and a band once uploaded is not
\* written again in the call: the texture keeps agreeing with the buffer.
C19_UploadAfterJoin ==
    /\ pc = "upload" =>
          /\ loopI \in Threads
          /\ wstate[loopI] = "finished"
          /\ RectRows(loopI) =
                StartY(loopI, HEIGHT, NUM_THREADS) ..
                    EndY(loopI, HEIGHT, NUM_THREADS) - 1
          /\ \A p \in PixelIdx :
                RowOf(p) \in RectRows(loopI) => writes[p] = <<loopI>>
          /\ \A t \in Threads : RowsToWrite(t) \cap RectRows(loopI) = {}
    /\ (InDraw \/ Returned) =>
          \A k \in uploaded : \A p \in PixelIdx :
              RowOf(p) \in RectRows(k) => texture[p] = pixels[p]

\* C19 witness: in the second frame band 0 is about to be uploaded while a
\* later worker is in the middle of a row.
C19_Witness ==
    /\ pc = "upload"
    /\ frame = 1
    /\ loopI = 0
    /\ \E t \in Threads : t > loopI /\ wstate[t] = "running" /\ wphase[t] = "col"

\* The last event handled and the state it found.
Last == fin.last

\* C20: dragging becomes true only on a press of the left button and is
\* false after any button-up event (and nothing else clears it); a motion
\* event changes the centre only when dragging was true, and when it was
\* false leaves centerX, centerY, zoom, prevMouseX, prevMouseY unchanged;
\* no button or motion event changes zoom; a wheel event changes none of
\* centerX, centerY, dragging.
C20_DragStateMachine ==
    /\ (Last.kind # "none" /\ ~Last.pre.dragging /\ dragging) =>
          Last.kind = "down" /\ Last.b = SDL_BUTTON_LEFT
    /\ (Last.kind = "down" /\ Last.b = SDL_BUTTON_LEFT) => dragging
    /\ Last.kind = "up" => ~dragging
    /\ (Last.kind # "none" /\ Last.pre.dragging /\ ~dragging) => Last.kind = "up"
    /\ (Last.kind = "motion" /\ (centerX # Last.pre.cx \/ centerY # Last.pre.cy))
          => Last.pre.dragging
    /\ (Last.kind = "motion" /\ ~Last.pre.dragging) => InputState = Last.pre
    /\ Last.kind \in {"down", "up", "motion"} => zoom = Last.pre.zoom
    /\ Last.kind = "wheel" =>
          /\ centerX = Last.pre.cx
          /\ centerY = Last.pre.cy
          /\ dragging = Last.pre.dragging

\* C20 witness: a press of the left button started a drag and the motion
\* event after it moved the centre.
C20_Witness ==
    /\ Last.kind = "motion"
    /\ Last.pre.dragging
    /\ centerX # Last.pre.cx
    /\ fin.prev.kind = "down"
    /\ fin.prev.b = SDL_BUTTON_LEFT
    /\ ~fin.prev.pre.dragging

=============================================================================
